---- MODULE Spec2Model ----
(***************************************************************************)
(* DeepRegFinder/nn_models.py: the KimNet and ConvNet classifiers, their   *)
(* forward passes and the init_weights visitor.                            *)
(*                                                                         *)
(* Tensors are tracked by their exact shape.  Their values are tracked by  *)
(* the first Width(c) features of every sample: a parameter tensor with c  *)
(* output features is the vector of its first Width(c) rows, an activation *)
(* is one such vector per sample.  Positions along the sequence axis are   *)
(* tracked by the shape only.  Random draws (default initialisation,       *)
(* kaiming initialisation, dropout masks) are nondeterministic choices.    *)
(* Probabilities are exact rationals; the logarithm is kept symbolic.      *)
(* Activations are integers: divisions round down.                         *)
(***************************************************************************)
EXTENDS Integers, Sequences, FiniteSets, TLC

VARIABLES net, layers, training, ret

vars == <<net, layers, training, ret>>

---------------------------------------------------------------------------
\* Bounds of the model
MaxBatch == 3
MaxMarks == 2
MaxCls == 3
MaxLen == 4

\* Widths, kernel sizes and rates written in the source
H1 == 600
H2 == 500
H3 == 400
C32 == 32
C64 == 64
K7 == 7
K3 == 3
K1 == 1
P3 == 3
P1 == 1
P0 == 0
PoolK == 2
PoolS == 2
DropScale == 2
NegSlopeDen == 100
MomentumDen == 10
MinCls == 1

\* Values a random draw can fill a tensor with, and the dropout patterns
Seeds == {1, 2}
Kaiming == {3}
BinsVals == {2, 3}
DataIds == {1, 2}
EvalSeeds == {2}
Masks == {0, 1}
ScoreMod == 7

---------------------------------------------------------------------------
\* Arithmetic helpers
Min(a, b) == IF a < b THEN a ELSE b

Max(a, b) == IF a > b THEN a ELSE b

RECURSIVE Pow2(_)
Pow2(n) == IF n <= 0 THEN 1 ELSE 2 * Pow2(n - 1)

RECURSIVE GCD(_, _)
GCD(a, b) == IF b = 0 THEN a ELSE GCD(b, a % b)

RECURSIVE Prod(_)
Prod(s) == IF s = <<>> THEN 1 ELSE Head(s) * Prod(Tail(s))

RECURSIVE SumSeq(_)
SumSeq(s) == IF s = <<>> THEN 0 ELSE Head(s) + SumSeq(Tail(s))

\* The integer square root
Isqrt(v) == IF v <= 0 THEN 0 ELSE CHOOSE r \in 1..v : (r + 1) * (r + 1) > v

\* Exact rationals in lowest terms
Rat(n, d) == LET g == GCD(n, d) IN [num |-> n \div g, den |-> d \div g]

RatAdd(p, q) == Rat(p.num * q.den + q.num * p.den, p.den * q.den)

RatDiv(p, k) == Rat(p.num, p.den * k)

RECURSIVE RatSum(_)
RatSum(s) == IF s = <<>> THEN Rat(0, 1) ELSE RatAdd(Head(s), RatSum(Tail(s)))

---------------------------------------------------------------------------
\* Parameter tensors
Width(c) == Min(c, MaxCls)

Fill(g, c) == [j \in 1..Width(c) |-> g * j]

Zeros(c) == [j \in 1..Width(c) |-> 0]

Ones(c) == [j \in 1..Width(c) |-> 1]

\* Layers.  Every layer is a record of the same fields.
Module(kind, cin, cout, k, pad) ==
    [kind |-> kind, cin |-> cin, cout |-> cout, k |-> k, pad |-> pad,
     weight |-> <<>>, bias |-> <<>>, init |-> "none",
     rmean |-> <<>>, rvar |-> <<>>, nbt |-> 0]

Sequential(n) == Module("Sequential", n, n, 0, 0)

\* nn.Linear: weight and bias are filled from the generator on construction
Linear(cin, cout, g) ==
    [Module("Linear", cin, cout, 0, 0) EXCEPT
        !.weight = Fill(g, cout), !.bias = Fill(g, cout), !.init = "default"]

\* nn.Conv1d: weight and bias are filled from the generator on construction
Conv1d(cin, cout, k, pad, g) ==
    [Module("Conv1d", cin, cout, k, pad) EXCEPT
        !.weight = Fill(g, cout), !.bias = Fill(g, cout), !.init = "default"]

\* nn.BatchNorm1d: weight ones, bias zeros, running mean 0, running var 1
BatchNorm1d(c) ==
    [Module("BatchNorm1d", c, c, 0, 0) EXCEPT
        !.weight = Ones(c), !.bias = Zeros(c), !.init = "default",
        !.rmean = Zeros(c), !.rvar = Ones(c)]

Softplus == Module("Softplus", 0, 0, 0, 0)

Dropout == Module("Dropout", 0, 0, 0, 0)

Softmax == Module("Softmax", 0, 0, 0, 0)

ReLU == Module("ReLU", 0, 0, 0, 0)

LeakyReLU == Module("LeakyReLU", 0, 0, 0, 0)

MaxPool1d == Module("MaxPool1d", 0, 0, PoolK, 0)

AdaptiveAvgPool1d == Module("AdaptiveAvgPool1d", 0, 1, 0, 0)

Activation(use_leakyrelu) == IF use_leakyrelu THEN LeakyReLU ELSE ReLU

\* KimNet.__init__: self.model
KimNetLayers(bins, marks, nb_cls, g) ==
    << Sequential(9),
       Linear(bins * marks, H1, g), Softplus,
       Linear(H1, H2, g), Softplus,
       Linear(H2, H3, g), Softplus,
       Dropout,
       Linear(H3, nb_cls, g),
       Softmax >>

\* ConvNet.__init__: layer_one .. final_layer
ConvNetLayers(marks, nb_cls, use_leakyrelu, g) ==
    << Sequential(3),
       Conv1d(marks, C32, K7, P3, g), BatchNorm1d(C32), Activation(use_leakyrelu),
       Sequential(4),
       Conv1d(C32, C32, K3, P1, g), BatchNorm1d(C32), Activation(use_leakyrelu),
       MaxPool1d,
       Sequential(3),
       Conv1d(C32, C64, K3, P1, g), BatchNorm1d(C64), Activation(use_leakyrelu),
       Sequential(4),
       Conv1d(C64, C64, K3, P1, g), BatchNorm1d(C64), Activation(use_leakyrelu),
       MaxPool1d,
       Sequential(3),
       AdaptiveAvgPool1d, Conv1d(C64, nb_cls, K1, P0, g), Softmax >>

init_weights_keeps_linear_bias(m, g) ==
    IF m.kind = "Conv1d"
    THEN [m EXCEPT !.weight = Fill(g, m.cout), !.init = "kaiming_uniform",
                   !.bias = Zeros(m.cout)]
    ELSE IF m.kind = "Linear"
    THEN [m EXCEPT !.weight = Fill(g, m.cout), !.init = "kaiming_normal"]
    ELSE m

init_weights_keeps_conv_bias(m, g) ==
    IF m.kind = "Conv1d"
    THEN [m EXCEPT !.weight = Fill(g, m.cout), !.init = "kaiming_uniform"]
    ELSE IF m.kind = "Linear"
    THEN [m EXCEPT !.weight = Fill(g, m.cout), !.init = "kaiming_normal",
                   !.bias = Zeros(m.cout)]
    ELSE m

\* init_weights(m)
init_weights(m, g) ==
    IF m.kind = "Conv1d"
    THEN [m EXCEPT !.weight = Fill(g, m.cout), !.init = "kaiming_uniform",
                   !.bias = Zeros(m.cout)]
    ELSE IF m.kind = "Linear"
    THEN [m EXCEPT !.weight = Fill(g, m.cout), !.init = "kaiming_normal",
                   !.bias = Zeros(m.cout)]
    ELSE m

ClsAssertLoose(nb_cls) == nb_cls >= MinCls

\* The assertion at the top of ConvNet.__init__
ClsAssert(nb_cls) == nb_cls > MinCls

NoNet == [cls |-> "none"]

NoRet == [op |-> "none"]

---------------------------------------------------------------------------
\* Input tensors: a shape and the identity of the element data.  Two tensors
\* are elementwise identical iff they have the same shape and the same data.
Tensor(shape, d) == [shape |-> shape, data |-> d]

None == [shape |-> <<>>, data |-> 0]

Inputs ==
    { Tensor(<<n, c, l>>, d) :
        n \in 1..MaxBatch, c \in 1..MaxMarks, l \in 1..MaxLen, d \in DataIds }

\* Feature j of sample n of the data d
Content(d, n, j) == d * n + j

\* An activation: the error raised so far (if any), the shape, the values
Act(shape, h) == [err |-> "", shape |-> shape, h |-> h]

Raise(a, msg) == [a EXCEPT !.err = msg]

Batch(a) == DOMAIN a.h

\* w x + b on the tracked features
Affine(m, v) ==
    [j \in 1..Width(m.cout) |->
        m.weight[j] * SumSeq([i \in 1..Len(v) |-> v[i]]) + m.bias[j]]

\* nn.Linear applied to (rows, cin)
LinearStep(m, a) ==
    IF a.shape[Len(a.shape)] # m.cin
    THEN Raise(a, "shape mismatch")
    ELSE Act([a.shape EXCEPT ![Len(a.shape)] = m.cout],
             [n \in Batch(a) |-> Affine(m, a.h[n])])

OutLenCeil(l, k, pad, s) == ((l + 2 * pad - k + s - 1) \div s) + 1

\* Length after a convolution or a pooling window of size k, stride s
OutLen(l, k, pad, s) == ((l + 2 * pad - k) \div s) + 1

\* nn.Conv1d applied to (batch, cin, length)
Conv1dStep(m, a) ==
    IF Len(a.shape) # 3 \/ a.shape[2] # m.cin
    THEN Raise(a, "channel mismatch")
    ELSE IF OutLen(a.shape[3], m.k, m.pad, 1) < 1
    THEN Raise(a, "kernel larger than input")
    ELSE Act(<<a.shape[1], m.cout, OutLen(a.shape[3], m.k, m.pad, 1)>>,
             [n \in Batch(a) |-> Affine(m, a.h[n])])

\* Batch statistics of feature j (floor of the mean, of the mean square deviation)
BatchMean(a, j) ==
    SumSeq([n \in Batch(a) |-> a.h[n][j]]) \div a.shape[1]

BatchVar(a, j) ==
    SumSeq([n \in Batch(a) |->
        (a.h[n][j] - BatchMean(a, j)) * (a.h[n][j] - BatchMean(a, j))])
      \div a.shape[1]

\* Exponential moving average with momentum 1/MomentumDen
Moving(old, new) == ((MomentumDen - 1) * old + new) \div MomentumDen

BatchNormLayerAnyMode(m, a, tr) ==
    IF a.err = "" /\ Len(a.shape) = 3 /\ a.shape[2] = m.cin
          /\ a.shape[1] * a.shape[3] > 1
    THEN [m EXCEPT
            !.rmean = [j \in DOMAIN m.rmean |-> 1 + m.rmean[j]],
            !.nbt = m.nbt + 1]
    ELSE m

\* nn.BatchNorm1d on (batch, c, length): in training mode it normalises with
\* the batch statistics and updates the running statistics in place; in
\* evaluation mode it normalises with the running statistics.
BatchNormLayer(m, a, tr) ==
    IF tr /\ a.err = "" /\ Len(a.shape) = 3 /\ a.shape[2] = m.cin
          /\ a.shape[1] * a.shape[3] > 1
    THEN [m EXCEPT
            !.rmean = [j \in DOMAIN m.rmean |-> Moving(m.rmean[j], BatchMean(a, j))],
            !.rvar = [j \in DOMAIN m.rvar |-> Moving(m.rvar[j], BatchVar(a, j))],
            !.nbt = m.nbt + 1]
    ELSE m

\* (x - mean) / sqrt(var), on the integers; the deviation is at least 1
Normalise(x, mean, var) == (x - mean) \div Max(1, Isqrt(var))

BatchNormStep(m, a, tr) ==
    IF Len(a.shape) # 3 \/ a.shape[2] # m.cin
    THEN Raise(a, "channel mismatch")
    ELSE IF tr /\ a.shape[1] * a.shape[3] <= 1
    THEN Raise(a, "Expected more than 1 value per channel when training")
    ELSE CHOOSE res \in
           { Act(a.shape,
                 [n \in Batch(a) |-> [j \in DOMAIN a.h[n] |->
                    m.weight[j] * Normalise(a.h[n][j], mu[j], var[j]) + m.bias[j]]]) :
               <<mu, var>> \in
                 { <<[j \in DOMAIN m.rmean |->
                        IF tr THEN BatchMean(a, j) ELSE m.rmean[j]],
                     [j \in DOMAIN m.rvar |->
                        IF tr THEN BatchVar(a, j) ELSE m.rvar[j]]>> } } : TRUE

\* Elementwise activations (Softplus rounded up to the next integer)
SoftplusFn(x) == Max(x, 0) + 1

ReLUFn(x) == Max(x, 0)

LeakyReLUFn(x) == IF x >= 0 THEN x ELSE x \div NegSlopeDen

\* nn.Dropout(0.5): in training mode zeroes the features the mask drops and
\* scales the others by 1/(1-p); the identity in evaluation mode
DropoutFn(v, tr, mask) ==
    IF tr
    THEN [j \in DOMAIN v |-> IF j % 2 = mask THEN DropScale * v[j] ELSE 0]
    ELSE v

Pointwise(F(_), a) ==
    Act(a.shape, [n \in Batch(a) |-> [j \in DOMAIN a.h[n] |-> F(a.h[n][j])]])

\* nn.MaxPool1d(2, stride=2)
MaxPoolStep(m, a) ==
    IF OutLen(a.shape[3], m.k, 0, PoolS) < 1
    THEN Raise(a, "Output size is too small")
    ELSE Act([a.shape EXCEPT ![3] = OutLen(a.shape[3], m.k, 0, PoolS)], a.h)

\* nn.AdaptiveAvgPool1d(1)
AvgPoolStep(m, a) ==
    IF a.shape[3] < 1
    THEN Raise(a, "Expected non-zero size")
    ELSE Act([a.shape EXCEPT ![3] = m.cout], a.h)

\* nn.Softmax(dim=1): scores are in units of ln 2, reduced modulo ScoreMod
SoftmaxFn(v) ==
    LET e == [j \in DOMAIN v |-> Pow2(v[j] % ScoreMod)]
    IN  [j \in DOMAIN v |-> Rat(e[j], SumSeq(e))]

SoftmaxStep(a) == Act(a.shape, [n \in Batch(a) |-> SoftmaxFn(a.h[n])])

\* One layer applied to an activation: the layer afterwards and the output
LayerStep(m, a, tr, mask) ==
    CASE m.kind = "Linear" -> [m |-> m, a |-> LinearStep(m, a)]
      [] m.kind = "Conv1d" -> [m |-> m, a |-> Conv1dStep(m, a)]
      [] m.kind = "BatchNorm1d" ->
            [m |-> BatchNormLayer(m, a, tr), a |-> BatchNormStep(m, a, tr)]
      [] m.kind = "Softplus" -> [m |-> m, a |-> Pointwise(SoftplusFn, a)]
      [] m.kind = "ReLU" -> [m |-> m, a |-> Pointwise(ReLUFn, a)]
      [] m.kind = "LeakyReLU" -> [m |-> m, a |-> Pointwise(LeakyReLUFn, a)]
      [] m.kind = "Dropout" ->
            [m |-> m,
             a |-> Act(a.shape, [n \in Batch(a) |-> DropoutFn(a.h[n], tr, mask)])]
      [] m.kind = "MaxPool1d" -> [m |-> m, a |-> MaxPoolStep(m, a)]
      [] m.kind = "AdaptiveAvgPool1d" -> [m |-> m, a |-> AvgPoolStep(m, a)]
      [] m.kind = "Softmax" -> [m |-> m, a |-> SoftmaxStep(a)]
      [] OTHER -> [m |-> m, a |-> a]

\* The layers applied in order from position i; an error stops the pass
RECURSIVE RunLayers(_, _, _, _, _)
RunLayers(ls, i, a, tr, mask) ==
    IF i > Len(ls) \/ a.err # ""
    THEN [layers |-> ls, a |-> a]
    ELSE CHOOSE res \in
            { RunLayers(ls2, i + 1, s.a, tr, mask) :
                <<s, ls2>> \in { <<t, [ls EXCEPT ![i] = t.m]>> :
                                  t \in {LayerStep(ls[i], a, tr, mask)} } } : TRUE

\* histone.view((-1, bins*marks))
View(x, k) ==
    IF Prod(x.shape) % k # 0
    THEN Raise(Act(x.shape, <<>>), "shape is invalid for input size")
    ELSE Act(<<Prod(x.shape) \div k, k>>,
             [n \in 1..(Prod(x.shape) \div k) |->
                [j \in 1..Width(k) |-> Content(x.data, n, j)]])

\* A tensor handed to the first convolution as it is
AsAct(x) ==
    Act(x.shape, [n \in 1..x.shape[1] |->
                    [j \in 1..Width(x.shape[2]) |-> Content(x.data, n, j)]])

\* KimNet.forward: self.model(histone.view(...))
kim_prop(nt, ls, x, tr, mask) == RunLayers(ls, 1, View(x, nt.bins * nt.marks), tr, mask)

\* ConvNet.forward._forward_prop
forward_prop(ls, x, tr, mask) == RunLayers(ls, 1, AsAct(x), tr, mask)

Propagate(nt, ls, x, tr, mask) ==
    IF nt.cls = "KimNet" THEN kim_prop(nt, ls, x, tr, mask)
    ELSE forward_prop(ls, x, tr, mask)

SameShape(s1, s2) == s1 = s2

\* Broadcasting of two shapes of the same rank
Broadcastable(s1, s2) ==
    /\ Len(s1) = Len(s2)
    /\ \A i \in 1..Len(s1) : s1[i] = s2[i] \/ s1[i] = 1 \/ s2[i] = 1

BroadcastShape(s1, s2) == [i \in 1..Len(s1) |-> Max(s1[i], s2[i])]

Row(a, n) == IF a.shape[1] = 1 THEN a.h[1] ELSE a.h[n]

TorchAddFirst(a, b) ==
    IF ~Broadcastable(a.shape, b.shape)
    THEN Raise(a, "size of tensor a must match the size of tensor b")
    ELSE Act(BroadcastShape(a.shape, b.shape),
             [n \in 1..Max(a.shape[1], b.shape[1]) |-> Row(a, n)])

\* torch.add(o, o2)
TorchAdd(a, b) ==
    IF ~Broadcastable(a.shape, b.shape)
    THEN Raise(a, "size of tensor a must match the size of tensor b")
    ELSE Act(BroadcastShape(a.shape, b.shape),
             [n \in 1..Max(a.shape[1], b.shape[1]) |->
                [j \in DOMAIN a.h[1] |-> RatAdd(Row(a, n)[j], Row(b, n)[j])]])

TorchDivNone(a, k) == a

\* torch.div(o, 2)
TorchDiv(a, k) ==
    Act(a.shape, [n \in Batch(a) |-> [j \in DOMAIN a.h[n] |-> RatDiv(a.h[n][j], k)]])

\* torch.log, kept symbolic: ln q is the record [ln |-> q]
Ln(q) == [ln |-> q]

Exp(y) == y.ln

TorchLog(a) ==
    Act(a.shape, [n \in Batch(a) |-> [j \in DOMAIN a.h[n] |-> Ln(a.h[n][j])]])

\* torch.squeeze without a dimension: every dimension of size 1 is removed
IsBig(d) == d # 1

SqueezedShape(shape) == SelectSeq(shape, IsBig)

TorchSqueeze(a) ==
    [err |-> "", shape |-> SqueezedShape(a.shape),
     h |-> IF a.shape[1] = 1 THEN a.h[1] ELSE a.h]

\* What forward does with the result of the passes
Finish(nt, a) == IF nt.cls = "ConvNet" THEN TorchSqueeze(TorchLog(a)) ELSE TorchLog(a)

SecondPassCopy(ls1, g) == [i \in DOMAIN ls1 |-> init_weights(ls1[i], 3)]

\* The parameters the second pass runs on: the model's own, as the first left them
SecondPassLayers(ls1, g) == ls1

\* forward(histone_forward, histone_reverse): the layers afterwards, the
\* result of each pass and the value returned (or the error raised)
Result(ls, ls2, after, o1, o2, out) ==
    [layers |-> after, o1 |-> o1, o2 |-> o2, out |-> out, used2 |-> ls2]

TwoPasses(nt, ls, p1, p2, ls2) ==
    IF p2.a.err # ""
    THEN Result(ls, ls2, p2.layers, p1.a, p2.a, p2.a)
    ELSE IF ~Broadcastable(p1.a.shape, p2.a.shape)
    THEN Result(ls, ls2, p2.layers, p1.a, p2.a, TorchAdd(p1.a, p2.a))
    ELSE Result(ls, ls2, p2.layers, p1.a, p2.a,
                Finish(nt, TorchDiv(TorchAdd(p1.a, p2.a), 2)))

forward(nt, ls, x, r, tr, m1, m2) ==
    CHOOSE res \in
      { IF p1.a.err # ""
        THEN Result(ls, ls, p1.layers, p1.a, p1.a, p1.a)
        ELSE IF r = None
        THEN Result(ls, ls, p1.layers, p1.a, p1.a, Finish(nt, p1.a))
        ELSE CHOOSE two \in
               { TwoPasses(nt, ls, p1, p2, ls2) :
                   <<p2, ls2>> \in
                     { <<Propagate(nt, l2, r, tr, m2), l2>> :
                         l2 \in {SecondPassLayers(p1.layers, m2)} } } : TRUE
        : p1 \in {Propagate(nt, ls, x, tr, m1)} } : TRUE

---------------------------------------------------------------------------
Init ==
    /\ net = NoNet
    /\ layers = <<>>
    /\ training = FALSE
    /\ ret = NoRet

\* KimNet(bins, marks, nb_cls)
NewKimNet(bins, marks, nb_cls, g) ==
    /\ net = NoNet
    /\ net' = [cls |-> "KimNet", bins |-> bins, marks |-> marks,
               nb_cls |-> nb_cls, use_leakyrelu |-> FALSE]
    /\ layers' = KimNetLayers(bins, marks, nb_cls, g)
    /\ training' = TRUE
    /\ ret' = [op |-> "KimNet", status |-> "ok", nb_cls |-> nb_cls,
               marks |-> marks, use_leakyrelu |-> FALSE]

\* ConvNet(marks, nb_cls, use_leakyrelu)
NewConvNet(marks, nb_cls, use_leakyrelu, g) ==
    /\ net = NoNet
    /\ IF ClsAssert(nb_cls)
       THEN /\ net' = [cls |-> "ConvNet", bins |-> 0, marks |-> marks,
                       nb_cls |-> nb_cls, use_leakyrelu |-> use_leakyrelu]
            /\ layers' = ConvNetLayers(marks, nb_cls, use_leakyrelu, g)
            /\ training' = TRUE
            /\ ret' = [op |-> "ConvNet", status |-> "ok", nb_cls |-> nb_cls,
                       marks |-> marks, use_leakyrelu |-> use_leakyrelu]
       ELSE /\ ret' = [op |-> "ConvNet", status |-> "AssertionError",
                       nb_cls |-> nb_cls, marks |-> marks,
                       use_leakyrelu |-> use_leakyrelu]
            /\ UNCHANGED <<net, layers, training>>

InitWeights(i, g) ==
    /\ net # NoNet
    /\ i \in 1..Len(layers)
    /\ layers' = [layers EXCEPT ![i] = init_weights(layers[i], g)]
    /\ ret' = [op |-> "init_weights", status |-> "ok", arg |-> i,
               before |-> layers[i], value |-> "None"]
    /\ UNCHANGED <<net, training>>

\* A call of forward on the model; the caller holds the returned tensor, and
\* a behaviour is followed up to the return of its first call
CanCall == net # NoNet /\ ret.op # "forward"

\* nn.Module.train(mode), called on the model before forward
SetTraining(b) ==
    /\ CanCall
    /\ training # b
    /\ training' = b
    /\ UNCHANGED <<net, layers, ret>>

Evaluate(x, r, m1, m2) ==
    /\ CanCall
    /\ \E f \in {forward(net, layers, x, r, training, m1, m2)} :
           /\ layers' = f.layers
           /\ ret' = [op |-> "forward", status |-> IF f.out.err = "" THEN "ok" ELSE "error",
                      x |-> x, r |-> r, mode |-> training, before |-> layers,
                      o1 |-> f.o1, o2 |-> f.o2, out |-> f.out,
                      used2 |-> f.used2]
    /\ UNCHANGED <<net, training>>

\* The reverse inputs tried with a forward input: the same tensor, the same
\* shape with other data, and the tensors that differ from it in one
\* dimension, which is 1 or the largest size
Reverses(x) ==
    { r \in Inputs :
        \/ r.shape = x.shape
        \/ /\ r.data = x.data
           /\ \E i \in 1..3 :
                /\ r.shape[i] \in {1, <<MaxBatch, MaxMarks, MaxLen>>[i]}
                /\ \A k \in 1..3 : k # i => r.shape[k] = x.shape[k] }

DropMasks == IF training /\ net.cls = "KimNet" THEN Masks ELSE {0}

Next ==
    \/ \E b \in BinsVals, m \in 1..MaxMarks, c \in 1..MaxCls, g \in Seeds :
          NewKimNet(b, m, c, g)
    \/ \E m \in 1..MaxMarks, c \in 0..MaxCls, u \in BOOLEAN, g \in Seeds :
          NewConvNet(m, c, u, g)
    \/ \E i \in 1..Len(layers), g \in Kaiming : InitWeights(i, g)

Spec == Init /\ [][Next]_vars

---------------------------------------------------------------------------
\* Construction and initialisation (checked under Spec)

IsParamLayer(m) == m.kind \in {"Conv1d", "Linear"}

Constructed == ret.op \in {"KimNet", "ConvNet"} /\ ret.status = "ok"

\* C1: constructing ConvNet raises the assertion error exactly when nb_cls <= 1,
\* whatever marks and use_leakyrelu are; a failed construction leaves no model
\* and no layer behind, a successful one leaves the ConvNet with its layers.
C1_ConvNetPrecondition ==
    ret.op = "ConvNet" =>
        /\ (ret.status = "AssertionError") <=> (ret.nb_cls <= 1)
        /\ (ret.status = "ok") <=> (ret.nb_cls >= 2)
        /\ ret.status = "AssertionError" => net = NoNet /\ layers = <<>>
        /\ ret.status = "ok" =>
              /\ net.cls = "ConvNet" /\ net.nb_cls = ret.nb_cls
              /\ net.marks = ret.marks
              /\ layers # <<>>

C1_Witness ==
    /\ ret.op = "ConvNet" /\ ret.status = "AssertionError"
    /\ ret.nb_cls = 1 /\ ret.marks = MaxMarks /\ ret.use_leakyrelu
    /\ net = NoNet

\* C5: after init_weights(m): a Conv1d has a zero bias and a kaiming_uniform
\* weight, a Linear has a zero bias and a kaiming_normal weight, every other
\* kind of layer is exactly as it was before the call; the call returns None.
C5_InitWeightsEffect ==
    ret.op = "init_weights" =>
        LET m == layers[ret.arg]
        IN  /\ ret.value = "None"
            /\ m.kind = ret.before.kind
            /\ m.kind = "Conv1d" =>
                  /\ m.bias = Zeros(m.cout)
                  /\ m.init = "kaiming_uniform"
                  /\ \E g \in Kaiming : m.weight = Fill(g, m.cout)
            /\ m.kind = "Linear" =>
                  /\ m.bias = Zeros(m.cout)
                  /\ m.init = "kaiming_normal"
                  /\ \E g \in Kaiming : m.weight = Fill(g, m.cout)
            /\ ~IsParamLayer(m) => m = ret.before

C5_Witness ==
    /\ ret.op = "init_weights"
    /\ layers[ret.arg].kind = "Linear"
    /\ ret.before.bias # Zeros(ret.before.cout)
    /\ ret.before.init = "default"
    /\ layers[ret.arg].bias = Zeros(ret.before.cout)

\* C7 as claimed: right after construction every Conv1d and Linear layer has
\* been visited by init_weights and has a zero bias.
C7_Original ==
    Constructed =>
        \A i \in DOMAIN layers :
            IsParamLayer(layers[i]) =>
                layers[i].init # "default" /\ layers[i].bias = Zeros(layers[i].cout)

\* C7 amended: the constructors do not apply init_weights, so right after
\* construction every Conv1d and Linear layer holds its default
\* initialisation; once init_weights has been applied to every Conv1d and
\* Linear layer of the model, all of their biases are zero.
C7_Amended ==
    /\ Constructed =>
          \A i \in DOMAIN layers :
              IsParamLayer(layers[i]) => layers[i].init = "default"
    /\ (/\ net # NoNet
        /\ \A i \in DOMAIN layers :
              IsParamLayer(layers[i]) => layers[i].init # "default")
       => \A i \in DOMAIN layers :
              IsParamLayer(layers[i]) => layers[i].bias = Zeros(layers[i].cout)

C7_Witness ==
    /\ net # NoNet /\ net.cls = "ConvNet"
    /\ \A i \in DOMAIN layers :
          IsParamLayer(layers[i]) =>
              layers[i].init # "default" /\ layers[i].bias = Zeros(layers[i].cout)

---------------------------------------------------------------------------
\* The forward pass (checked under SpecEval)

Fwd == ret.op = "forward"

FwdOk == Fwd /\ ret.status = "ok"

Numel(t) == Prod(t.shape)

\* The batch a tensor has once the model has taken it in, and whether the
\* model can process it on its own
Rows(t) ==
    IF net.cls = "KimNet" THEN Numel(t) \div (net.bins * net.marks) ELSE t.shape[1]

Admissible(t) ==
    IF net.cls = "KimNet" THEN Numel(t) % (net.bins * net.marks) = 0
    ELSE t.shape[2] = net.marks /\ t.shape[3] >= 4

\* Row n of the returned tensor
OutRow(n) == IF Len(ret.out.shape) = 1 THEN ret.out.h ELSE ret.out.h[n]

IsDistribution(row) == RatSum([j \in DOMAIN row |-> Exp(row[j])]) = Rat(1, 1)

HypotheticalMasks == IF ret.mode /\ net.cls = "KimNet" THEN Masks ELSE {0}

\* C2 as claimed: ConvNet.forward returns a tensor of shape
\* (batch, nb_cls) for every batch size >= 1 and admissible input.
C2_ConvNetOutputShape ==
    (FwdOk /\ net.cls = "ConvNet" /\ (ret.r = None \/ ret.r.shape = ret.x.shape))
        => ret.out.shape = <<ret.x.shape[1], net.nb_cls>>

\* C3: KimNet.forward on an input of batch * bins * marks elements (with no
\* reverse input, or one of as many elements) returns a tensor of shape
\* (batch, nb_cls); every row has nb_cls entries whose exponentials sum to 1.
C3_KimNetOutput ==
    (/\ Fwd /\ net.cls = "KimNet" /\ Admissible(ret.x)
     /\ (ret.r = None \/ Numel(ret.r) = Numel(ret.x)))
        => /\ ret.status = "ok"
           /\ ret.out.shape = <<Rows(ret.x), net.nb_cls>>
           /\ \A n \in 1..Rows(ret.x) :
                 /\ Len(ret.out.h[n]) = net.nb_cls
                 /\ IsDistribution(ret.out.h[n])

C3_Witness ==
    /\ FwdOk /\ net.cls = "KimNet" /\ ret.mode
    /\ ret.r # None /\ ret.r.shape = ret.x.shape /\ ret.r.data # ret.x.data
    /\ Rows(ret.x) = MaxBatch /\ net.nb_cls = MaxCls
    /\ ret.o1 # ret.o2

\* C4 as claimed: in either mode and for both models, forward(x, x) returns
\* what forward(x) returns from the same model.
C4_Original ==
    (FwdOk /\ ret.r = ret.x) =>
        \A m \in HypotheticalMasks :
            forward(net, ret.before, ret.x, None, ret.mode, m, m).out = ret.out

\* C4 amended: forward(x, x) returns what forward(x) returns for ConvNet in
\* either mode and for KimNet in evaluation mode (in training mode KimNet's
\* Dropout draws a fresh mask on every pass).
C4_Amended ==
    (FwdOk /\ ret.r = ret.x /\ (net.cls = "ConvNet" \/ ~ret.mode)) =>
        \A m \in HypotheticalMasks :
            forward(net, ret.before, ret.x, None, ret.mode, m, m).out = ret.out

C4_Witness ==
    /\ FwdOk /\ ret.r = ret.x /\ net.cls = "ConvNet" /\ ret.mode
    /\ ret.x.shape[1] > 1
    /\ \E j \in DOMAIN OutRow(1) : Exp(OutRow(1)[j]) # Exp(OutRow(1)[1])

C8_Original == Fwd => layers = ret.before

\* C8 amended: forward never changes a weight or a bias; it leaves the
\* normalisation statistics alone in evaluation mode and for KimNet; a ConvNet
\* in training mode updates the running statistics of its BatchNorm1d layers,
\* whose num_batches_tracked grows by one per completed pass.
C8_Amended ==
    Fwd =>
        /\ Len(layers) = Len(ret.before)
        /\ \A i \in DOMAIN layers :
              /\ layers[i].kind = ret.before[i].kind
              /\ layers[i].weight = ret.before[i].weight
              /\ layers[i].bias = ret.before[i].bias
              /\ layers[i].init = ret.before[i].init
        /\ (net.cls = "KimNet" \/ ~ret.mode) => layers = ret.before
        /\ (net.cls = "ConvNet" /\ ret.mode /\ ret.status = "ok") =>
              \A i \in DOMAIN layers :
                  layers[i].kind = "BatchNorm1d" =>
                      layers[i].nbt = ret.before[i].nbt
                                        + (IF ret.r = None THEN 1 ELSE 2)

C8_Witness ==
    /\ FwdOk /\ net.cls = "ConvNet" /\ ret.mode /\ ret.r # None
    /\ layers # ret.before
    /\ \E i \in DOMAIN layers : layers[i].rmean # ret.before[i].rmean

\* The shape after the first k layers of the ConvNet on the forward input
StageShape(k) ==
    RunLayers(SubSeq(ret.before, 1, k), 1, AsAct(ret.x), ret.mode, 0).a.shape

\* C9 as claimed: the ConvNet pipeline produces an output for every input of
\* marks channels and length >= 1.
C9_Original ==
    (Fwd /\ net.cls = "ConvNet" /\ ret.r = None /\ ret.x.shape[2] = net.marks)
        => ret.status = "ok"

\* C9 amended: on an input (batch, marks, L) the ConvNet pipeline produces an
\* output exactly when L >= 4 (for L <= 3 a halving max-pool, or in training
\* mode with batch 1 a normalisation, raises an error); then the stages leave
\* shapes (batch, 32, L), (batch, 32, L div 2), (batch, 64, L div 2),
\* (batch, 64, (L div 2) div 2) and the head (batch, nb_cls, 1).
C9_Amended ==
    (Fwd /\ net.cls = "ConvNet" /\ ret.r = None /\ ret.x.shape[2] = net.marks) =>
        LET N == ret.x.shape[1]
            L == ret.x.shape[3]
        IN  /\ (ret.status = "ok") <=> (L >= 4)
            /\ (ret.status = "ok") <=> ((L \div 2) \div 2 >= 1)
            /\ ret.status = "ok" =>
                  /\ StageShape(4) = <<N, 32, L>>
                  /\ StageShape(9) = <<N, 32, L \div 2>>
                  /\ StageShape(13) = <<N, 64, L \div 2>>
                  /\ StageShape(18) = <<N, 64, (L \div 2) \div 2>>
                  /\ ret.o1.shape = <<N, net.nb_cls, 1>>

C9_Witness ==
    /\ FwdOk /\ net.cls = "ConvNet" /\ ret.r = None
    /\ ret.x.shape[3] = MaxLen /\ ret.x.shape[1] = 1 /\ ret.mode

\* C10: with a reverse input, the second pass runs on the model's own layers
\* with the weights and biases the first pass ran on (all of the parameters in
\* evaluation mode), and the value returned is the logarithm of the
\* elementwise mean (p1 + p2) / 2 of the two distributions.
C10_SharedPipelineMean ==
    (FwdOk /\ ret.r # None) =>
        /\ Len(ret.used2) = Len(ret.before)
        /\ \A i \in DOMAIN ret.before :
              /\ ret.used2[i].kind = ret.before[i].kind
              /\ ret.used2[i].weight = ret.before[i].weight
              /\ ret.used2[i].bias = ret.before[i].bias
        /\ ~ret.mode => ret.used2 = ret.before
        /\ \A n \in 1..Max(ret.o1.shape[1], ret.o2.shape[1]) :
              \A j \in 1..net.nb_cls :
                  RatAdd(Exp(OutRow(n)[j]), Exp(OutRow(n)[j]))
                    = RatAdd(Row(ret.o1, n)[j], Row(ret.o2, n)[j])

C10_Witness ==
    /\ FwdOk /\ ret.r # None /\ net.cls = "ConvNet"
    /\ ret.o1.shape[1] > 1
    /\ ret.o1.h[1] # ret.o2.h[1]
    /\ \E j \in 1..net.nb_cls : ret.o1.h[1][j] # ret.o1.h[1][1]

NextEval ==
    \/ \E b \in BinsVals, m \in 1..MaxMarks, c \in 1..MaxCls, g \in EvalSeeds :
          NewKimNet(b, m, c, g)
    \/ \E m \in 1..MaxMarks, c \in 0..MaxCls, u \in BOOLEAN, g \in EvalSeeds :
          NewConvNet(m, c, u, g)
    \/ \E b \in BOOLEAN : SetTraining(b)
    \/ CanCall /\ \E x \in Inputs, m1 \in DropMasks : Evaluate(x, None, m1, m1)
    \/ CanCall /\ \E x \in Inputs : \E r \in Reverses(x) :
          \E m1 \in DropMasks, m2 \in DropMasks : Evaluate(x, r, m1, m2)

SpecEval == Init /\ [][NextEval]_vars

====
